---- MODULE Spec2Model ----
(***************************************************************************)
(* TaskFlow server: the asynchronous CSV ingestion and AI categorization   *)
(* pipeline.  One upload request is followed from uploadCSV through        *)
(* processUpload, categorizeTasksBatch (cache split, chunking, chunk call, *)
(* per-item fallback, model discovery, rate limiter) to the progress       *)
(* tracker's terminal state and the record's timed removal.                *)
(*                                                                         *)
(* Every action is one stretch of code between two suspension points       *)
(* (await of a network call, a timer or a stream event); the code between  *)
(* two suspension points runs without interleaving (single-threaded event  *)
(* loop).                                                                  *)
(***************************************************************************)
EXTENDS Integers, Sequences, FiniteSets, TLC

(***************************************************************************)
(* Bounds of the model.                                                    *)
(***************************************************************************)
MaxRows == 6        \* data rows of an uploaded CSV: 0..MaxRows
MaxAgents == 2      \* agents in the roster: 0..MaxAgents
MaxFaults == 2      \* upstream calls that fail or answer badly in one run
MaxTicks == 1       \* rate windows that elapse during one run
MaxProcs == 2       \* classification requests in flight at once
MaxStreak == 6      \* consecutiveFailures is followed up to this value

(***************************************************************************)
(* Program constants.                                                      *)
(***************************************************************************)
CacheCap == 1000
EvictCount == 200
MAX_REQUESTS_PER_MINUTE == 5
MAX_MODEL_DISCOVERY_ATTEMPTS == 3
maxRetries == 2
maxChunkSize == 15
maxTokens == 2000
minChunkSize == 5
basePromptTokens == 200
taskNumberTokens == 10
FailureStreakLimit == 5

CATEGORIES == <<"Support", "Sales", "Technical", "Billing", "Urgent", "General">>
MODEL_NAMES == <<"gemini-2.5-flash", "gemini-1.5-flash", "gemini-1.5-pro", "gemini-pro">>

None == "none"      \* JavaScript null / undefined
NaN == 0 - 1        \* JavaScript NaN, a value outside 0..100

(***************************************************************************)
(* Task notes.  A note is a string; the model keeps what the code looks    *)
(* at: whether it has surrounding whitespace (ws), upper-case letters      *)
(* (up), its content once trimmed and lower-cased (stem) and its number of *)
(* whitespace-separated words.  stem = "" with ws = FALSE is the empty     *)
(* string, stem = "" with ws = TRUE a blank string.                        *)
(***************************************************************************)
NoteEmpty == [stem |-> "", ws |-> FALSE, up |-> FALSE, words |-> 0]
NoteBill == [stem |-> "invoice wrong", ws |-> FALSE, up |-> FALSE, words |-> 2]
NoteBillLoud == [stem |-> "invoice wrong", ws |-> TRUE, up |-> TRUE, words |-> 2]
NoteLong == [stem |-> "long sales enquiry", ws |-> FALSE, up |-> FALSE, words |-> 450]
Notes == {NoteEmpty, NoteBill, NoteBillLoud, NoteLong}

Trim(n) == [n EXCEPT !.ws = FALSE]
ToLowerCase(n) == [n EXCEPT !.up = FALSE]
IsFalsy(n) == n.stem = "" /\ ~n.ws           \* "" is falsy, " " is not

\* generateCacheKey: null for a falsy note, else md5(lowercase, trim); the
\* digest is modelled by the normalised text it is computed from.
generateCacheKey(notes) ==
    IF IsFalsy(notes) THEN None ELSE Trim(ToLowerCase(notes)).stem

CacheKeys == {generateCacheKey(n) : n \in Notes} \ {None}

\* estimateTokens: 0 for a falsy text, else ceil(words / 0.75); a blank
\* string trims to "" whose split has one (empty) word.
WordsOf(n) == IF n.stem = "" THEN 1 ELSE n.words
estimateTokens(text) ==
    IF IsFalsy(text) THEN 0 ELSE (4 * WordsOf(text) + 2) \div 3

(***************************************************************************)
(* The upstream classifier.  Its answer to a prompt is a text; the model   *)
(* keeps the category names the text mentions.  The prompt carries the     *)
(* trimmed note with its case, so the answer may depend on the case.       *)
(***************************************************************************)
UpstreamAnswer(trimmed) ==
    IF trimmed.stem = "" THEN {}
    ELSE IF trimmed.stem = "invoice wrong"
         THEN (IF trimmed.up THEN {"Urgent", "Billing"} ELSE {"Billing"})
         ELSE {"Sales"}

\* categorizeTask's normalisation: the first category of CATEGORIES contained
\* in the answer, General when none is.
RECURSIVE FirstCategoryIn(_, _)
FirstCategoryIn(text, i) ==
    IF i > Len(CATEGORIES) THEN "General"
    ELSE IF CATEGORIES[i] \in text THEN CATEGORIES[i]
    ELSE FirstCategoryIn(text, i + 1)

NormalizeAnswer(text) == FirstCategoryIn(text, 1)

\* The label the upstream classifier gives a note.
UpstreamLabel(notes) == NormalizeAnswer(UpstreamAnswer(Trim(notes)))

DefaultResult == [category |-> "General", source |-> "default", confidence |-> None]
AiResult(cat) == [category |-> cat, source |-> "ai", confidence |-> None]

(***************************************************************************)
(* createOptimalChunks                                                     *)
(***************************************************************************)
\* A plausible slip: a chunk is closed whenever a limit would be exceeded,
\* whatever its size.
RECURSIVE ChunkLoopNoMinimum(_, _, _, _)
ChunkLoopNoMinimum(items, chunks, currentChunk, currentTokens) ==
    IF items = <<>>
    THEN (IF Len(currentChunk) > 0 THEN Append(chunks, currentChunk) ELSE chunks)
    ELSE LET item == Head(items)
             totalTaskTokens == estimateTokens(item.task.notes) + taskNumberTokens
             wouldExceedSize == Len(currentChunk) >= maxChunkSize
             wouldExceedTokens ==
                 (currentTokens + totalTaskTokens + basePromptTokens) > maxTokens
         IN  IF (wouldExceedSize \/ wouldExceedTokens) /\ Len(currentChunk) >= 1
             THEN ChunkLoopNoMinimum(Tail(items), Append(chunks, currentChunk), <<item>>,
                                     totalTaskTokens)
             ELSE ChunkLoopNoMinimum(Tail(items), chunks, Append(currentChunk, item),
                                     currentTokens + totalTaskTokens)

RECURSIVE ChunkLoop(_, _, _, _)
ChunkLoop(items, chunks, currentChunk, currentTokens) ==
    IF items = <<>>
    THEN (IF Len(currentChunk) > 0 THEN Append(chunks, currentChunk) ELSE chunks)
    ELSE LET item == Head(items)
             totalTaskTokens == estimateTokens(item.task.notes) + taskNumberTokens
             wouldExceedSize == Len(currentChunk) >= maxChunkSize
             wouldExceedTokens ==
                 (currentTokens + totalTaskTokens + basePromptTokens) > maxTokens
         IN  IF (wouldExceedSize \/ wouldExceedTokens) /\ Len(currentChunk) >= minChunkSize
             THEN ChunkLoop(Tail(items), Append(chunks, currentChunk), <<item>>,
                            totalTaskTokens)
             ELSE ChunkLoop(Tail(items), chunks, Append(currentChunk, item),
                            currentTokens + totalTaskTokens)

createOptimalChunks(items) == ChunkLoop(items, <<>>, <<>>, 0)

(***************************************************************************)
(* separateCachedTasks, combineResults.  Indices are 0-based as in the     *)
(* code; a cache is a function from cache keys to a category or None.      *)
(***************************************************************************)
RECURSIVE SeparateLoop(_, _, _, _, _)
SeparateLoop(taskList, cache, i, cachedAcc, uncachedAcc) ==
    IF i >= Len(taskList)
    THEN [cachedResults |-> cachedAcc, uncachedTasks |-> uncachedAcc]
    ELSE LET task == taskList[i + 1]
             cacheKey == generateCacheKey(task.notes)
         IN  IF cacheKey # None /\ cache[cacheKey] # None
             THEN SeparateLoop(taskList, cache, i + 1,
                      Append(cachedAcc, [index |-> i, result |-> AiResult(cache[cacheKey])]),
                      uncachedAcc)
             ELSE SeparateLoop(taskList, cache, i + 1, cachedAcc,
                      Append(uncachedAcc, [index |-> i, task |-> task]))

separateCachedTasks(taskList, cache) == SeparateLoop(taskList, cache, 0, <<>>, <<>>)

MaxOf(S) == CHOOSE x \in S : \A y \in S : y <= x

CountSource(results, src) == Cardinality({i \in 1..Len(results) : results[i].source = src})

\* A plausible slip: the results are taken in arrival order (cached first,
\* then chunk by chunk) instead of by original index.
combineResultsArrivalOrder(cachedRes, batchRes, originalTasks) ==
    LET all == cachedRes \o batchRes
        results == [i \in 1..Len(originalTasks) |->
                       IF i <= Len(all) THEN all[i].result ELSE DefaultResult]
    IN  [results |-> results,
         categorizedCount |-> CountSource(results, "ai"),
         defaultCount |-> Len(results) - CountSource(results, "ai")]

combineResults(cachedRes, batchRes, originalTasks) ==
    LET all == cachedRes \o batchRes
        hits(i) == {j \in 1..Len(all) : all[j].index = i}
        resultFor(i) == IF hits(i) = {} THEN DefaultResult ELSE all[MaxOf(hits(i))].result
        results == [i \in 1..Len(originalTasks) |-> resultFor(i - 1)]
    IN  [results |-> results,
         categorizedCount |-> CountSource(results, "ai"),
         defaultCount |-> Len(results) - CountSource(results, "ai")]

DefaultsFor(items) == [j \in 1..Len(items) |-> [index |-> items[j].index, result |-> DefaultResult]]

RECURSIVE Flatten(_, _)
Flatten(chunkSeq, from) ==
    IF from > Len(chunkSeq) THEN <<>> ELSE chunkSeq[from] \o Flatten(chunkSeq, from + 1)

(***************************************************************************)
(* The rate limiter.  windowElapsed says that now > rateLimitResetTime.    *)
(***************************************************************************)
checkRateLimit(count, elapsed) ==
    LET c == IF elapsed THEN 0 ELSE count
    IN  [allowed |-> c < MAX_REQUESTS_PER_MINUTE, requestCount |-> c]

(***************************************************************************)
(* The progress tracker.  The store maps a job id to its record.           *)
(***************************************************************************)
JobId == "job_1"
Min(a, b) == IF a <= b THEN a ELSE b
Max(a, b) == IF a >= b THEN a ELSE b
\* Math.round(num / den * scale), den > 0
RoundRatio(num, den, scale) == (2 * scale * num + den) \div (2 * den)
\* Math.min(100, Math.round((processed / total) * 100)); 0/0 is NaN, n/0 Infinity
Percentage(processed, total) ==
    IF total = 0 THEN (IF processed = 0 THEN NaN ELSE 100)
    ELSE Min(100, RoundRatio(processed, total, 100))

initializeProgress(store, totalTasks) ==
    (JobId :> [status |-> "initializing", progress |-> 0, totalTasks |-> totalTasks,
               processedTasks |-> 0, categorizedTasks |-> 0, defaultTasks |-> 0,
               rateLimitHit |-> FALSE, error |-> None]) @@ store

\* Object.assign(progress, updates, {progress: ...}): the third object is built
\* from the record as it is before the merge.
\* A plausible slip: an update for a job the store no longer holds creates
\* the record again from the update.
updateProgressUpsert(store, updates) ==
    IF JobId \notin DOMAIN store THEN (JobId :> updates)
    ELSE LET progress == store[JobId]
             recomputed ==
                 IF "processedTasks" \in DOMAIN updates
                 THEN Percentage(updates.processedTasks, progress.totalTasks)
                 ELSE progress.progress
         IN  (JobId :> [(updates @@ progress) EXCEPT !.progress = recomputed])

updateProgress(store, updates) ==
    IF JobId \notin DOMAIN store THEN store
    ELSE LET progress == store[JobId]
             recomputed ==
                 IF "processedTasks" \in DOMAIN updates
                 THEN Percentage(updates.processedTasks, progress.totalTasks)
                 ELSE progress.progress
         IN  (JobId :> [(updates @@ progress) EXCEPT !.progress = recomputed])

completeProgress(store, finalData) ==
    IF JobId \notin DOMAIN store THEN store
    ELSE (JobId :> (finalData @@ [status |-> "completed", progress |-> 100] @@ store[JobId]))

failProgress(store, error) ==
    IF JobId \notin DOMAIN store THEN store
    ELSE (JobId :> ([status |-> "failed", error |-> error] @@ store[JobId]))

\* progressCallback of processUpload; counts are the closure's running counts.
CallbackCounts(counts, progressData) ==
    [categorized |-> IF "categorizedTasks" \in DOMAIN progressData
                     THEN progressData.categorizedTasks ELSE counts.categorized,
     defaults |-> IF "defaultTasks" \in DOMAIN progressData
                  THEN progressData.defaultTasks ELSE counts.defaults]

\* A plausible slip: the callback reports the phase the job was in before the
\* classifier ran instead of the step it is given.
progressCallbackStaleStep(store, counts, progressData, nTasks) ==
    LET c == CallbackCounts(counts, progressData)
    IN  updateProgress(store,
            [status |-> "parsing",
             progress |-> Min(90, 20 + RoundRatio(progressData.processedTasks, nTasks, 70)),
             processedTasks |-> progressData.processedTasks,
             categorizedTasks |-> c.categorized,
             defaultTasks |-> c.defaults,
             rateLimitHit |-> IF "rateLimitHit" \in DOMAIN progressData
                              THEN progressData.rateLimitHit ELSE FALSE])

progressCallback(store, counts, progressData, nTasks) ==
    LET c == CallbackCounts(counts, progressData)
    IN  updateProgress(store,
            [status |-> progressData.step,
             progress |-> Min(90, 20 + RoundRatio(progressData.processedTasks, nTasks, 70)),
             processedTasks |-> progressData.processedTasks,
             categorizedTasks |-> c.categorized,
             defaultTasks |-> c.defaults,
             rateLimitHit |-> IF "rateLimitHit" \in DOMAIN progressData
                              THEN progressData.rateLimitHit ELSE FALSE])

(***************************************************************************)
(* Inputs: the uploaded CSV files, the roster, the request.                *)
(***************************************************************************)
\* header.toLowerCase() for the header names of the model's files
HeaderToLowerCase(h) ==
    CASE h \in {"FirstName", "FIRSTNAME", "firstname"} -> "firstname"
      [] h \in {"Phone", "phone"} -> "phone"
      [] h \in {"Notes", "NOTES"} -> "notes"
      [] OTHER -> "email"

requiredHeaders == {"firstname", "phone", "notes"}

HeadersValid(headers) ==
    \A r \in requiredHeaders : r \in {HeaderToLowerCase(h) : h \in headers}

\* The rows of a file: the second row carries note a, every other row note b.
Rows(n, a, b) == [i \in 1..n |-> [notes |-> IF i = 2 THEN a ELSE b]]

HeaderLines == {{"FirstName", "Phone", "Notes"}, {"FIRSTNAME", "phone", "NOTES", "Email"},
                {"FirstName", "Phone"}, {}}

\* A file: its header line ({} for an empty file), its data rows and whether a
\* row makes the parser emit an error.
\* A file of 20 rows with the same short note.
TwentyShortRows ==
    [headers |-> {"FirstName", "Phone", "Notes"},
     rows |-> [i \in 1..20 |-> [notes |-> NoteBill]], rowError |-> FALSE]

CsvFiles ==
    {TwentyShortRows} \cup
    {f \in {[headers |-> h, rows |-> Rows(n, a, b), rowError |-> e] :
               h \in HeaderLines, n \in 0..MaxRows, a \in Notes,
               b \in {NoteLong}, e \in BOOLEAN} :
        /\ f.rowError => (HeadersValid(f.headers) /\ Len(f.rows) = 1)
        /\ ~HeadersValid(f.headers) => Len(f.rows) = (IF f.headers = {} THEN 0 ELSE 1)}

\* req.file.size of a file of the model, about 40 bytes a row
FileSize(csv) == 30 + 40 * Len(csv.rows)

Roster(n) == [i \in 1..n |-> i]      \* Agent.find(): the agents' ids in fetch order

\* A plausible slip: the length test is strict in the wrong direction.
NoAgentsWrongTest(agents) == Len(agents) < 0

\* !agents || agents.length === 0
NoAgents(agents) == Len(agents) = 0

RequestKinds == {"noFile", "noUser", "notFound", "agentEmail", "dbError", "ok"}

(***************************************************************************)
(* State.                                                                  *)
(***************************************************************************)
VARIABLES
    pc,                     \* where the request or its background job stands
    categorizationCache,    \* cache key -> category, None when absent
    cacheOthers,            \* entries of the cache for other, earlier texts
    requestCount,           \* rate limiter: requests counted in this window
    windowElapsed,          \* rate limiter: now > rateLimitResetTime
    workingModel,           \* cached working model name, None when unknown
    modelDiscoveryAttempts,
    discoveryStale,         \* now - lastModelDiscoveryTime >= MODEL_DISCOVERY_INTERVAL
    healthStats,            \* consecutiveFailures, isHealthy
    aiEnabled,              \* ENABLE_AI_CATEGORIZATION !== "false"
    liveModels,             \* the model names the upstream service recognises
    agentsDb,               \* number of agents in the Agent collection
    fileExists,             \* the uploaded file is on disk
    httpStatus,             \* status of the response of uploadCSV, 0 before
    progressStore,          \* job id -> progress record
    uploadDb,               \* the persisted Upload record's status, None before
    taskStore,              \* the persisted tasks, in insertion order
    job,                    \* processUpload: its arguments and locals
    batch,                  \* categorizeTasksBatch: its locals
    indiv,                  \* categorizeChunkIndividually / categorizeTask: locals
    disc,                   \* discoverWorkingModel: its locals and its caller
    hist                    \* history: faults injected, windows elapsed, observations

svcVars == <<categorizationCache, cacheOthers, requestCount, windowElapsed, workingModel,
             modelDiscoveryAttempts, healthStats>>
envVars == <<aiEnabled, liveModels, agentsDb>>
dbVars == <<fileExists, uploadDb, taskStore>>
vars == <<pc, svcVars, discoveryStale, envVars, dbVars, httpStatus, progressStore, job, batch, indiv,
          disc, hist>>

NoJob == [kind |-> None, csv |-> [headers |-> {}, rows |-> <<>>, rowError |-> FALSE], agents |-> <<>>,
          tasks |-> <<>>, validationError |-> None, headersValid |-> FALSE,
          uploadRecord |-> None,
          counts |-> [categorized |-> 0, defaults |-> 0],
          response |-> [results |-> <<>>, rateLimitHit |-> FALSE,
                        categorizedCount |-> 0, defaultCount |-> 0]]
\* calls, succeeded and delays count the chunk requests issued, the chunk
\* requests answered with a parsed response and the 13 s delays taken.
NoBatch == [cachedResults |-> <<>>, chunks |-> <<>>, i |-> 0, batchResults |-> <<>>,
            rateLimitHit |-> FALSE, modelName |-> None,
            calls |-> 0, succeeded |-> 0, delays |-> 0]
\* afterNotFound and backoff tell what preceded the attempt in flight: a
\* "not found" answer with its forced discovery, and the backoff delay.
NoIndiv == [i |-> 0, results |-> <<>>, attempt |-> 0, modelName |-> None,
            afterNotFound |-> FALSE, backoff |-> FALSE]
NoDisc == [forceRefresh |-> FALSE, i |-> 0, ret |-> None, result |-> None]
NoPoll == [id |-> None, at |-> None, code |-> 0, status |-> None]
NoRemoval == [status |-> None, after |-> 0]
\* cleaned: cleanupOldProgress deleted the record of the running job;
\* removed: the status of the record a grace timer deleted and the timer's
\* delay in ms; poll: the answer to the client's poll and where it was made.
NoHist == [faults |-> 0, ticks |-> 0, limiterExhausted |-> FALSE, unclassifiedAtStop |-> {},
           rediscoveryOwed |-> FALSE, cleaned |-> FALSE, removed |-> NoRemoval,
           poll |-> NoPoll, issued |-> 0,
           clobbered |-> FALSE, passEnded |-> FALSE, served |-> FALSE, deleted |-> 0]

\* issued counts the upstream requests that were sent and have settled since
\* the rate window was last reset.
Sent(h) == [h EXCEPT !.issued = h.issued + 1]

\* The history after a classification failure that leaves the failure streak
\* at streak without starting a forced discovery: a streak that has just
\* reached FailureStreakLimit is remembered until a forced discovery starts.
StreakNoted(h, streak) ==
    [h EXCEPT !.rediscoveryOwed = h.rediscoveryOwed \/ streak = FailureStreakLimit]

\* The states the service can be in when an upload arrives, as earlier
\* requests and the upstream service left it: the cache holds labels the
\* classifier gave, the counter is within the budget, a cached working model
\* may since have been withdrawn upstream.
Service(cache, count, model, failures, live) ==
    [cache |-> cache, count |-> count, model |-> model, failures |-> failures,
     live |-> live]
EmptyCache == [k \in CacheKeys |-> None]

\* categorizationCache.size
CacheSize(cache, others) == others + Cardinality({k \in CacheKeys : cache[k] # None})

\* Lines 407-414 after an insertion: above CacheCap entries the EvictCount
\* oldest are deleted; the entries of earlier texts are the oldest.
cleanOldEntries(cache, others) ==
    IF CacheSize(cache, others) > CacheCap THEN others - EvictCount ELSE others
BillCached == [EmptyCache EXCEPT ![generateCacheKey(NoteBill)] = "Billing"]
LongCached == [EmptyCache EXCEPT ![generateCacheKey(NoteLong)] = "Sales"]
\* The service of a process started with the feature disabled: nothing was
\* ever classified; the admin re-discovery endpoint has probed one model.
DisabledService == Service(EmptyCache, 1, MODEL_NAMES[1], 0, {MODEL_NAMES[1]})

\* The entries the cache holds for texts of earlier uploads, all older than
\* the entries of the notes of this upload: none in a process that never
\* had a working model, else as many as fill the cache to CacheCap.
OthersAtStart(s) ==
    IF s.model = None \/ s = DisabledService THEN 0
    ELSE IF s.cache = EmptyCache THEN CacheCap
    ELSE CacheCap - 1

InitServices ==
    {DisabledService,
     Service(EmptyCache, 0, None, 0, {MODEL_NAMES[1]}),
     Service(EmptyCache, 0, None, 0, {MODEL_NAMES[2]}),
     Service(EmptyCache, 0, None, 0, {}),
     Service(BillCached, 0, MODEL_NAMES[1], 0, {MODEL_NAMES[1]}),
     Service(LongCached, MAX_REQUESTS_PER_MINUTE - 1, MODEL_NAMES[1], 0, {MODEL_NAMES[1]}),
     Service(EmptyCache, MAX_REQUESTS_PER_MINUTE, MODEL_NAMES[1], 0, {MODEL_NAMES[1]}),
     Service(EmptyCache, MAX_REQUESTS_PER_MINUTE - 1, None, 0, {MODEL_NAMES[1]}),
     Service(BillCached, 0, MODEL_NAMES[1], FailureStreakLimit - 1, {MODEL_NAMES[2]})}

Init ==
    /\ pc = "idle"
    /\ \E s \in InitServices :
         /\ categorizationCache = s.cache
         /\ cacheOthers = OthersAtStart(s)
         /\ requestCount = s.count
         /\ workingModel = s.model
         /\ healthStats = [consecutiveFailures |-> s.failures, isHealthy |-> TRUE]
         /\ liveModels = s.live
         /\ \/ s # DisabledService /\ aiEnabled = TRUE /\ agentsDb \in 1..MaxAgents
            \/ s = DisabledService
               /\ aiEnabled = FALSE /\ agentsDb \in 1..MaxAgents
            \/ s = Service(EmptyCache, 0, None, 0, {MODEL_NAMES[1]})
               /\ aiEnabled = TRUE /\ agentsDb = 0
    /\ windowElapsed = FALSE
    /\ modelDiscoveryAttempts = 0
    /\ discoveryStale = (workingModel = None)
    /\ fileExists = FALSE
    /\ httpStatus = 0
    /\ progressStore = <<>>
    /\ uploadDb = None
    /\ taskStore = <<>>
    /\ job = NoJob
    /\ batch = NoBatch
    /\ indiv = NoIndiv
    /\ disc = NoDisc
    /\ hist = [NoHist EXCEPT !.issued = requestCount]

(***************************************************************************)
(* The upload route: multer stores the file, then uploadCSV runs.          *)
(***************************************************************************)
StoreUpload ==
    /\ pc = "idle"
    /\ \E kind \in RequestKinds, csv \in CsvFiles :
         /\ job' = [NoJob EXCEPT !.kind = kind, !.csv = csv]
         /\ fileExists' = (kind # "noFile")
    /\ pc' = "received"
    /\ UNCHANGED <<svcVars, envVars, discoveryStale, uploadDb, taskStore, httpStatus, progressStore,
                   batch, indiv, disc, hist>>

\* The request is answered before a job exists: the stored file is unlinked
\* (there is none when no file came) and the handler returns.
Reject(status) ==
    /\ httpStatus' = status
    /\ fileExists' = FALSE
    /\ pc' = "responded"
    /\ UNCHANGED <<svcVars, envVars, discoveryStale, uploadDb, taskStore, progressStore, job, batch,
                   indiv, disc, hist>>

UploadCSV ==
    /\ pc = "received"
    /\ \/ /\ job.kind = "noFile"
          /\ Reject(400)
       \/ /\ job.kind = "noUser"
          /\ Reject(401)
       \/ /\ job.kind = "notFound"
          /\ Reject(404)
       \/ /\ job.kind = "agentEmail"
          /\ Reject(403)
       \/ /\ job.kind = "dbError"
          /\ Reject(500)
       \/ /\ job.kind = "ok"
          /\ NoAgents(Roster(agentsDb))
          /\ Reject(400)
       \/ /\ job.kind = "ok"
          /\ ~NoAgents(Roster(agentsDb))
          /\ progressStore' = initializeProgress(progressStore,
                                  Max(1, FileSize(job.csv) \div 100))
          /\ job' = [job EXCEPT !.agents = Roster(agentsDb)]
          /\ httpStatus' = 200
          /\ pc' = "launched"
          /\ UNCHANGED <<svcVars, envVars, discoveryStale, dbVars, batch, indiv, disc, hist>>

(***************************************************************************)
(* processUpload                                                           *)
(***************************************************************************)
\* The catch block: best-effort save of the failed Upload record (saveOk says
\* whether that save succeeds), best-effort unlink, failProgress.
CatchBlock(message, recordExists, saveOk, unlinkOk) ==
    /\ uploadDb' = IF recordExists /\ saveOk THEN "failed" ELSE uploadDb
    /\ fileExists' = IF unlinkOk THEN FALSE ELSE fileExists
    /\ progressStore' = failProgress(progressStore, message)
    /\ pc' = "done"

ProcessUploadBegin ==
    /\ pc = "launched"
    /\ progressStore' = updateProgress(progressStore, [status |-> "parsing", progress |-> 5])
    /\ pc' = "parsing"
    /\ UNCHANGED <<svcVars, envVars, discoveryStale, dbVars, httpStatus, job, batch, indiv, disc, hist>>

\* The headers event with a required header missing: stream.destroy().  A
\* destroyed stream emits neither end nor error, so the awaited promise never
\* settles.
StreamHeadersRejected ==
    /\ pc = "parsing"
    /\ job.csv.headers # {}
    /\ ~HeadersValid(job.csv.headers)
    /\ job' = [job EXCEPT !.headersValid = FALSE,
                          !.validationError =
                              "Invalid CSV format. Required headers: FirstName, Phone, Notes"]
    /\ pc' = "hung"
    /\ UNCHANGED <<svcVars, envVars, discoveryStale, dbVars, httpStatus, progressStore, batch, indiv,
                   disc, hist>>

\* The stream ends: every row was pushed; an empty file has had no headers
\* event.  The Upload record is built and its save awaited.
StreamEnd ==
    /\ pc = "parsing"
    /\ ~job.csv.rowError
    /\ \/ /\ job.csv.headers = {}
          /\ job' = [job EXCEPT !.uploadRecord = "failed", !.csv = NoJob.csv]
          /\ pc' = "saveFailed"
       \/ /\ HeadersValid(job.csv.headers)
          /\ job' = [job EXCEPT !.headersValid = TRUE, !.tasks = job.csv.rows,
                                !.uploadRecord = "processing", !.csv = NoJob.csv]
          /\ pc' = "saveProcessing"
    /\ UNCHANGED <<svcVars, envVars, discoveryStale, dbVars, httpStatus, progressStore, batch, indiv,
                   disc, hist>>

\* The parser emits error on a row: the promise rejects, the catch block runs
\* with no Upload record yet.
StreamError ==
    /\ pc = "parsing"
    /\ job.csv.rowError
    /\ HeadersValid(job.csv.headers)
    /\ job' = [job EXCEPT !.headersValid = TRUE, !.validationError = "Row error",
                          !.csv = NoJob.csv]
    /\ CatchBlock("Row error", FALSE, FALSE, TRUE)
    /\ UNCHANGED <<svcVars, envVars, discoveryStale, taskStore, httpStatus, batch, indiv, disc, hist>>

\* Lines 78-102: the failed Upload record is saved, the file removed.
SaveFailedRecord ==
    /\ pc = "saveFailed"
    /\ \/ /\ uploadDb' = "failed"
          /\ fileExists' = FALSE
          /\ progressStore' = failProgress(progressStore, "Invalid CSV format")
          /\ pc' = "done"
       \/ \E saveOk \in BOOLEAN : CatchBlock("save failed", TRUE, saveOk, TRUE)
    /\ UNCHANGED <<svcVars, envVars, discoveryStale, taskStore, httpStatus, job, batch, indiv, disc, hist>>

\* Lines 104-123: the processing Upload record is saved, the job turns to
\* categorizing with the real task count.
SaveProcessingRecord ==
    /\ pc = "saveProcessing"
    /\ \/ /\ uploadDb' = "processing"
          /\ progressStore' = updateProgress(progressStore,
                 [status |-> "categorizing", progress |-> 20,
                  totalTasks |-> Len(job.tasks), processedTasks |-> 0])
          /\ pc' = "batch"
          /\ UNCHANGED fileExists
       \/ \E saveOk \in BOOLEAN : CatchBlock("save failed", TRUE, saveOk, TRUE)
    /\ UNCHANGED <<svcVars, envVars, discoveryStale, taskStore, httpStatus, job, batch, indiv, disc, hist>>

\* A plausible slip: only the tasks the classifier labelled are kept.
MergeResultsLabelledOnly(taskList, results) ==
    LET RECURSIVE Keep(_)
        Keep(i) ==
            IF i > Len(taskList) THEN <<>>
            ELSE IF i <= Len(results) /\ results[i].source = "ai"
                 THEN <<[notes |-> taskList[i].notes, category |-> results[i].category,
                         categorySource |-> "ai", categorizedAt |-> TRUE,
                         categoryConfidence |-> None]>> \o Keep(i + 1)
                 ELSE Keep(i + 1)
    IN  Keep(1)

\* Lines 167-174: the results are merged onto the tasks by position.
MergeResults(taskList, results) ==
    [i \in 1..Len(taskList) |->
        LET has == i <= Len(results)
        IN  [notes |-> taskList[i].notes,
             category |-> IF has THEN results[i].category ELSE "General",
             categorySource |-> IF has THEN results[i].source ELSE "default",
             categorizedAt |-> has /\ results[i].source = "ai",
             categoryConfidence |-> None]]

\* A plausible slip: the round robin starts at the second agent.
AssignAgentOffByOne(agents, index) == agents[((index + 1) % Len(agents)) + 1]

\* agents[index % agents.length]._id, index 0-based
AssignAgent(agents, index) == agents[(index % Len(agents)) + 1]

DistributeTasks(categorized, agents) ==
    [i \in 1..Len(categorized) |->
        [notes |-> categorized[i].notes, category |-> categorized[i].category,
         categorySource |-> categorized[i].categorySource,
         categorizedAt |-> categorized[i].categorizedAt,
         agent |-> AssignAgent(agents, i - 1)]]

\* Lines 161-208: categorizeTasksBatch has returned; merge, report saving,
\* distribute, and await the bulk insert.
MergeAndDistribute ==
    /\ pc = "merge"
    /\ progressStore' = updateProgress(progressStore,
           [status |-> "saving", progress |-> 95, processedTasks |-> Len(job.tasks)])
    /\ pc' = "insert"
    /\ UNCHANGED <<svcVars, envVars, discoveryStale, dbVars, httpStatus, job, batch, indiv, disc, hist>>

\* Task.insertMany settles.
InsertTasks ==
    /\ pc = "insert"
    /\ \/ /\ taskStore' = taskStore \o
                 DistributeTasks(MergeResults(job.tasks, job.response.results), job.agents)
          /\ job' = [job EXCEPT !.uploadRecord = "success"]
          /\ pc' = "saveSuccess"
          /\ UNCHANGED <<fileExists, uploadDb, progressStore>>
       \/ /\ \E saveOk \in BOOLEAN : CatchBlock("insert failed", TRUE, saveOk, TRUE)
          /\ UNCHANGED <<taskStore, job>>
    /\ UNCHANGED <<svcVars, envVars, discoveryStale, httpStatus, batch, indiv, disc, hist>>

\* Lines 212-231: the success record is saved, the file unlinked, the job
\* completed; a throwing save or unlink goes to the catch block.
FinishUpload ==
    /\ pc = "saveSuccess"
    /\ \/ /\ uploadDb' = "success"
          /\ fileExists' = FALSE
          /\ progressStore' = completeProgress(progressStore,
                 [processedTasks |-> Len(job.tasks),
                  categorizedTasks |-> job.response.categorizedCount,
                  defaultTasks |-> job.response.defaultCount,
                  rateLimitHit |-> job.response.rateLimitHit])
          /\ pc' = "done"
       \/ \E saveOk \in BOOLEAN : CatchBlock("save failed", TRUE, saveOk, TRUE)
       \/ \E saveOk \in BOOLEAN : CatchBlock("unlink failed", TRUE, saveOk, FALSE)
    /\ UNCHANGED <<svcVars, envVars, discoveryStale, taskStore, httpStatus, job, batch, indiv, disc, hist>>

(***************************************************************************)
(* The progress tracker's timers.                                          *)
(***************************************************************************)
Terminal(status) == status \in {"completed", "failed"}

\* The setTimeout of completeProgress (60 s) or failProgress (5 min) fires.
\* The delay in ms of the timer completeProgress or failProgress sets.
GraceDelay(status) == IF status = "completed" THEN 60000 ELSE 5 * 60 * 1000

RemoveAfterGrace ==
    /\ pc = "done"
    /\ JobId \in DOMAIN progressStore
    /\ Terminal(progressStore[JobId].status)
    /\ progressStore' = <<>>
    /\ hist' = [hist EXCEPT !.removed = [status |-> progressStore[JobId].status,
                                         after |-> GraceDelay(progressStore[JobId].status)]]
    /\ pc' = "removed"
    /\ UNCHANGED <<svcVars, envVars, discoveryStale, dbVars, httpStatus, job, batch, indiv, disc>>

\* cleanupOldProgress: a record not updated for PROGRESS_TTL whose status is
\* neither categorizing nor saving is deleted.  Only a job whose wait never
\* ends stays that long without an update.
CleanupOldProgress ==
    /\ pc = "hung" \/ (pc = "parsing" /\ job.csv = TwentyShortRows)
    /\ JobId \in DOMAIN progressStore
    /\ progressStore[JobId].status \notin {"categorizing", "saving"}
    /\ progressStore' = <<>>
    /\ hist' = [hist EXCEPT !.cleaned = (pc = "parsing")]
    /\ pc' = IF pc = "hung" THEN "abandoned" ELSE pc
    /\ UNCHANGED <<svcVars, envVars, discoveryStale, dbVars, httpStatus, job, batch, indiv, disc>>

(***************************************************************************)
(* progressController: the client polls GET /api/upload/progress/:jobId   *)
(***************************************************************************)
\* getUploadProgress: 404 with status not_found when getProgress gives null,
\* else the record.
getUploadProgress(store, id) ==
    IF id \notin DOMAIN store THEN [code |-> 404, status |-> "not_found"]
    ELSE [code |-> 200, status |-> store[id].status]

\* The id a client asks for: the job's once its record is gone, or, when the
\* upload was refused and no job exists, one the store never held.
PollIds(at) ==
    IF at \in {"removed", "abandoned"} THEN {JobId}
    ELSE IF at = "responded" THEN {"job_0"}
    ELSE {}

Poll ==
    /\ hist.poll = NoPoll
    /\ \E id \in PollIds(pc) :
         hist' = [hist EXCEPT !.poll = [id |-> id, at |-> pc] @@
                                        getUploadProgress(progressStore, id)]
    /\ UNCHANGED <<pc, svcVars, envVars, discoveryStale, dbVars, httpStatus, progressStore,
                   job, batch, indiv, disc>>

(***************************************************************************)
(* categorizeTasksBatch                                                    *)
(***************************************************************************)
IndicesOf(items) == {items[j].index : j \in 1..Len(items)}

\* History: the original indices with no result yet.
Unclassified(b, ind) ==
    (0..(Len(job.tasks) - 1)) \
        (IndicesOf(b.cachedResults) \cup IndicesOf(b.batchResults) \cup IndicesOf(ind.results))

\* History: the first time checkRateLimit() answers false during the batch run,
\* the tasks still unclassified are remembered.
Observe(h, allowed, b, ind) ==
    LET w == IF windowElapsed THEN [h EXCEPT !.issued = 0] ELSE h
    IN  IF allowed \/ h.limiterExhausted THEN w
        ELSE [w EXCEPT !.limiterExhausted = TRUE,
                       !.unclassifiedAtStop = Unclassified(b, ind)]

AiCount(results) == Cardinality({j \in 1..Len(results) : results[j].result.source = "ai"})

\* A plausible slip: the defaults are returned without being counted.
AllDefaultsUncounted(taskList) ==
    [results |-> [i \in 1..Len(taskList) |-> DefaultResult],
     rateLimitHit |-> FALSE, categorizedCount |-> 0, defaultCount |-> 0]

\* Lines 959-973: the response when the feature is disabled.
AllDefaults(taskList) ==
    [results |-> [i \in 1..Len(taskList) |-> DefaultResult],
     rateLimitHit |-> FALSE, categorizedCount |-> 0, defaultCount |-> Len(taskList)]

BatchResponse(combined, hit) ==
    [results |-> combined.results, rateLimitHit |-> hit,
     categorizedCount |-> combined.categorizedCount,
     defaultCount |-> combined.defaultCount]

\* Lines 955-1012: empty list, feature disabled, cache split, chunking.
CategorizeTasksBatchBegin ==
    /\ pc = "batch"
    /\ LET sep == separateCachedTasks(job.tasks, categorizationCache)
           data == [step |-> "categorizing", processedTasks |-> Len(sep.cachedResults),
                    categorizedTasks |-> Len(sep.cachedResults)]
       IN  \/ /\ Len(job.tasks) = 0
              /\ job' = [job EXCEPT !.response = NoJob.response]
              /\ pc' = "merge"
              /\ UNCHANGED <<progressStore, batch>>
           \/ /\ Len(job.tasks) > 0
              /\ ~aiEnabled
              /\ job' = [job EXCEPT !.response = AllDefaults(job.tasks)]
              /\ pc' = "merge"
              /\ UNCHANGED <<progressStore, batch>>
           \/ /\ Len(job.tasks) > 0
              /\ aiEnabled
              /\ sep.uncachedTasks = <<>>
              /\ progressStore' = progressCallback(progressStore, job.counts, data,
                                                   Len(job.tasks))
              /\ job' = [job EXCEPT
                            !.counts = CallbackCounts(job.counts, data),
                            !.response = BatchResponse(
                                combineResults(sep.cachedResults, <<>>, job.tasks), FALSE)]
              /\ pc' = "merge"
              /\ UNCHANGED batch
           \/ /\ Len(job.tasks) > 0
              /\ aiEnabled
              /\ sep.uncachedTasks # <<>>
              /\ progressStore' = progressCallback(progressStore, job.counts, data,
                                                   Len(job.tasks))
              /\ job' = [job EXCEPT !.counts = CallbackCounts(job.counts, data)]
              /\ batch' = [NoBatch EXCEPT !.cachedResults = sep.cachedResults,
                                          !.chunks = createOptimalChunks(sep.uncachedTasks),
                                          !.i = 1]
              /\ pc' = "chunkCheck"
    /\ UNCHANGED <<svcVars, envVars, discoveryStale, dbVars, httpStatus, indiv, disc, hist>>

\* Rate-limit stop: the chunks from the current one on are set to default.
StopForRateLimit(b) ==
    [b EXCEPT !.rateLimitHit = TRUE,
              !.batchResults = b.batchResults \o DefaultsFor(Flatten(b.chunks, b.i))]

\* getWorkingModel(): the cached model, else discoverWorkingModel(false);
\* the caller resumes at ret with the model in disc.result.
GetWorkingModel(ret) ==
    IF workingModel # None
    THEN /\ disc' = [NoDisc EXCEPT !.ret = ret, !.result = workingModel]
         /\ pc' = ret
    ELSE /\ disc' = [NoDisc EXCEPT !.ret = ret, !.forceRefresh = FALSE]
         /\ pc' = "discover"

\* Lines 1018-1067: the check before a chunk, the start callback, and the
\* call of categorizeChunkBatch up to its getWorkingModel().
ChunkCheck ==
    /\ pc = "chunkCheck"
    /\ LET rl == checkRateLimit(requestCount, windowElapsed)
           processed == Len(batch.cachedResults) + Len(batch.batchResults)
       IN  /\ requestCount' = rl.requestCount
           /\ windowElapsed' = FALSE
           /\ hist' = Observe(hist, rl.allowed, batch, NoIndiv)
           /\ \/ /\ ~rl.allowed
                 /\ LET data == [step |-> "categorizing", processedTasks |-> processed,
                                 rateLimitHit |-> TRUE]
                    IN  /\ progressStore' = progressCallback(progressStore, job.counts,
                                                             data, Len(job.tasks))
                        /\ job' = [job EXCEPT !.counts = CallbackCounts(job.counts, data)]
                 /\ batch' = StopForRateLimit(batch)
                 /\ pc' = "combine"
                 /\ UNCHANGED disc
              \/ /\ rl.allowed
                 /\ LET data == [step |-> "categorizing", processedTasks |-> processed,
                                 categorizedTasks |-> Len(batch.cachedResults)
                                                      + AiCount(batch.batchResults)]
                    IN  /\ progressStore' = progressCallback(progressStore, job.counts,
                                                             data, Len(job.tasks))
                        /\ job' = [job EXCEPT !.counts = CallbackCounts(job.counts, data)]
                 /\ GetWorkingModel("chunkGate")
                 /\ UNCHANGED batch
    /\ UNCHANGED <<categorizationCache, cacheOthers, workingModel, modelDiscoveryAttempts, healthStats,
                   envVars, discoveryStale, dbVars, httpStatus, indiv>>

\* A plausible slip: the delay is taken after the last chunk too.
AfterChunkAlwaysDelay(b) ==
    IF b.i < Len(b.chunks) /\ ~b.rateLimitHit
    THEN /\ batch' = [b EXCEPT !.i = b.i + 1, !.delays = b.delays + 1]
         /\ pc' = "chunkCheck"
    ELSE /\ batch' = [b EXCEPT !.delays = b.delays + 1]
         /\ pc' = "combine"

\* The chunk loop's tail: the 13 s delay and the next chunk, or the end.
AfterChunk(b) ==
    IF b.i < Len(b.chunks) /\ ~b.rateLimitHit
    THEN /\ batch' = [b EXCEPT !.i = b.i + 1, !.delays = b.delays + 1]
         /\ pc' = "chunkCheck"
    ELSE /\ batch' = b
         /\ pc' = "combine"

\* categorizeChunkBatch lines 771-795: no model, no budget, or the request.
ChunkGate ==
    /\ pc = "chunkGate"
    /\ \/ /\ disc.result = None
          /\ indiv' = [NoIndiv EXCEPT !.i = 1]
          /\ pc' = "itemStart"
          /\ UNCHANGED <<requestCount, windowElapsed, batch, hist>>
       \/ /\ disc.result # None
          /\ LET rl == checkRateLimit(requestCount, windowElapsed)
             IN  /\ windowElapsed' = FALSE
                 /\ hist' = Observe(hist, rl.allowed, batch, NoIndiv)
                 /\ \/ /\ ~rl.allowed
                       /\ requestCount' = rl.requestCount
                       /\ batch' = StopForRateLimit(batch)
                       /\ pc' = "combine"
                    \/ /\ rl.allowed
                       /\ requestCount' = rl.requestCount + 1
                       /\ batch' = [batch EXCEPT !.modelName = disc.result,
                                                 !.calls = batch.calls + 1]
                       /\ pc' = "chunkCall"
          /\ UNCHANGED indiv
    /\ UNCHANGED <<categorizationCache, cacheOthers, workingModel, modelDiscoveryAttempts, healthStats,
                   envVars, discoveryStale, dbVars, httpStatus, progressStore, job, disc>>

\* validateCategory: an exact match, else the first category of CATEGORIES
\* contained in the answer, else General.
validateCategory(category) ==
    IF category = {} THEN "General"
    ELSE IF \E i \in 1..Len(CATEGORIES) : category = {CATEGORIES[i]}
         THEN CATEGORIES[CHOOSE i \in 1..Len(CATEGORIES) : category = {CATEGORIES[i]}]
         ELSE FirstCategoryIn(category, 1)

\* The category of ordinal j of a chunk under a parsed answer that names the
\* ordinals in present.
ChunkCategory(chunk, j, present) ==
    IF j \in present THEN validateCategory(UpstreamAnswer(Trim(chunk[j].task.notes)))
    ELSE "General"

\* categorizationCache.set for every item of the chunk, in order.
RECURSIVE CacheChunk(_, _, _, _)
CacheChunk(cache, chunk, j, present) ==
    IF j > Len(chunk) THEN cache
    ELSE LET cacheKey == generateCacheKey(chunk[j].task.notes)
         IN  CacheChunk(IF cacheKey = None THEN cache
                        ELSE [cache EXCEPT ![cacheKey] = ChunkCategory(chunk, j, present)],
                        chunk, j + 1, present)

\* The ordinals a chunk answer names: all of them, or all but the last.
Ordinals(chunk, outcome) ==
    IF outcome = "full" THEN 1..Len(chunk) ELSE 1..(Len(chunk) - 1)

\* What the upstream service can answer.  A request naming a model it does
\* not recognise fails with "not found"; one naming a live model is answered
\* well, or meets a transient fault (timeout, unusable answer, 429).
ChunkOutcomes(known) ==
    IF known THEN {"full", "partial", "error", "rateLimit"} ELSE {"error"}
ItemOutcomes(known) ==
    IF known THEN {"ok", "error", "rateLimit"} ELSE {"notFound"}
ProbeOutcomes(known) ==
    IF known THEN {"working", "broken", "rateLimit"} ELSE {"broken"}
Faulty(known, outcome) == known /\ outcome \notin {"full", "ok", "working"}

\* The chunk request settles: a parsed answer, an error that is not
\* rate-limit shaped (timeout, unparseable answer, unknown model), or a 429.
ChunkAnswered ==
    /\ pc = "chunkCall"
    /\ LET chunk == batch.chunks[batch.i]
           known == batch.modelName \in liveModels
       IN  \E outcome \in ChunkOutcomes(known) :
             /\ Faulty(known, outcome) => hist.faults < MaxFaults
             /\ hist' = Sent(IF Faulty(known, outcome)
                             THEN [hist EXCEPT !.faults = hist.faults + 1] ELSE hist)
             /\ LET present == Ordinals(chunk, outcome)
                IN  \/ /\ outcome \in {"full", "partial"}
                       /\ present # {}
                       /\ categorizationCache' =
                              CacheChunk(categorizationCache, chunk, 1, present)
                       /\ UNCHANGED cacheOthers
                       /\ healthStats' = [healthStats EXCEPT !.consecutiveFailures = 0,
                                                             !.isHealthy = TRUE]
                       /\ LET results == [j \in 1..Len(chunk) |->
                                  [index |-> chunk[j].index,
                                   result |-> AiResult(ChunkCategory(chunk, j, present))]]
                              b == [batch EXCEPT !.batchResults = batch.batchResults \o results,
                                                 !.succeeded = batch.succeeded + 1]
                              data == [step |-> "categorizing",
                                       processedTasks |-> Len(b.cachedResults)
                                                          + Len(b.batchResults),
                                       categorizedTasks |-> Len(b.cachedResults)
                                                            + AiCount(b.batchResults)]
                          IN  /\ progressStore' = progressCallback(progressStore,
                                     job.counts, data, Len(job.tasks))
                              /\ job' = [job EXCEPT
                                            !.counts = CallbackCounts(job.counts, data)]
                              /\ AfterChunk(b)
                       /\ UNCHANGED indiv
                    \/ /\ \/ outcome = "error"
                          \/ outcome = "partial" /\ present = {}
                       /\ indiv' = [NoIndiv EXCEPT !.i = 1]
                       /\ pc' = "itemStart"
                       /\ UNCHANGED <<categorizationCache, cacheOthers, healthStats, progressStore, job,
                                      batch>>
                    \/ /\ outcome = "rateLimit"
                       /\ batch' = StopForRateLimit(batch)
                       /\ pc' = "combine"
                       /\ UNCHANGED <<categorizationCache, cacheOthers, healthStats, progressStore, job,
                                      indiv>>
    /\ UNCHANGED <<requestCount, windowElapsed, workingModel, modelDiscoveryAttempts,
                   envVars, discoveryStale, dbVars, httpStatus, disc>>

\* Lines 1140-1150: the merged response is returned to processUpload.
Combine ==
    /\ pc = "combine"
    /\ job' = [job EXCEPT !.response =
                  BatchResponse(combineResults(batch.cachedResults, batch.batchResults,
                                               job.tasks),
                                batch.rateLimitHit)]
    /\ pc' = "merge"
    /\ UNCHANGED <<svcVars, envVars, discoveryStale, dbVars, httpStatus, progressStore, batch, indiv, disc,
                   hist>>

(***************************************************************************)
(* categorizeChunkIndividually and categorizeTask                          *)
(***************************************************************************)
CurrentChunk == batch.chunks[batch.i]
CurrentItem == CurrentChunk[indiv.i]

\* A plausible slip: a default is not recorded for the item.
PushResultUnlessDefault(results, item, result) ==
    IF result = DefaultResult THEN results
    ELSE Append(results, [index |-> item.index, result |-> result])

\* results.push({index: item.index, result}) of categorizeChunkIndividually
PushResult(results, item, result) ==
    Append(results, [index |-> item.index, result |-> result])

\* One item of the fallback is over.  returned: categorizeTask returned the
\* result (it is pushed, the callback reports the chunk's own count, and the
\* 2 s delay precedes the next item); otherwise it threw and the catch pushed
\* a default.  After the last item the results join batchResults and the
\* chunk loop goes on.
ItemFinished(result, returned) ==
    LET results == PushResult(indiv.results, CurrentItem, result)
        data == [step |-> "categorizing", processedTasks |-> Len(results)]
    IN  /\ IF returned
           THEN /\ progressStore' = progressCallback(progressStore, job.counts, data,
                                                     Len(job.tasks))
                /\ job' = [job EXCEPT !.counts = CallbackCounts(job.counts, data)]
           ELSE UNCHANGED <<progressStore, job>>
        /\ IF indiv.i < Len(CurrentChunk)
           THEN /\ indiv' = [NoIndiv EXCEPT !.i = indiv.i + 1, !.results = results]
                /\ pc' = "itemStart"
                /\ UNCHANGED batch
           ELSE /\ indiv' = NoIndiv
                /\ AfterChunk([batch EXCEPT !.batchResults = batch.batchResults \o results])

\* categorizeTask lines 265-325: blank note, cache hit, rate limit, then
\* getWorkingModel().
ItemBegin ==
    /\ pc = "itemStart"
    /\ LET notes == CurrentItem.task.notes
           cacheKey == generateCacheKey(Trim(notes))
           rl == checkRateLimit(requestCount, windowElapsed)
       IN  \/ /\ Trim(notes).stem = ""
              /\ ItemFinished(DefaultResult, TRUE)
              /\ UNCHANGED <<requestCount, windowElapsed, disc, hist>>
           \/ /\ Trim(notes).stem # ""
              /\ cacheKey # None /\ categorizationCache[cacheKey] # None
              /\ ItemFinished(AiResult(categorizationCache[cacheKey]), TRUE)
              /\ UNCHANGED <<requestCount, windowElapsed, disc, hist>>
           \/ /\ Trim(notes).stem # ""
              /\ ~(cacheKey # None /\ categorizationCache[cacheKey] # None)
              /\ requestCount' = rl.requestCount
              /\ windowElapsed' = FALSE
              /\ hist' = Observe(hist, rl.allowed, batch, indiv)
              /\ \/ /\ ~rl.allowed
                    /\ ItemFinished(DefaultResult, TRUE)
                    /\ UNCHANGED disc
                 \/ /\ rl.allowed
                    /\ GetWorkingModel("itemGate")
                    /\ UNCHANGED <<progressStore, job, batch, indiv>>
    /\ UNCHANGED <<categorizationCache, cacheOthers, workingModel, modelDiscoveryAttempts, healthStats,
                   envVars, discoveryStale, dbVars, httpStatus>>

\* Lines 327-358: no model is a counted failure; else the request is counted
\* and the first attempt issued.
ItemGate ==
    /\ pc = "itemGate"
    /\ \/ /\ disc.result = None
          /\ healthStats' = [healthStats EXCEPT
                                !.consecutiveFailures = healthStats.consecutiveFailures + 1]
          /\ hist' = StreakNoted(hist, healthStats.consecutiveFailures + 1)
          /\ ItemFinished(DefaultResult, TRUE)
          /\ UNCHANGED requestCount
       \/ /\ disc.result # None
          /\ requestCount' = requestCount + 1
          /\ indiv' = [indiv EXCEPT !.attempt = 0, !.modelName = disc.result]
          /\ pc' = "itemCall"
          /\ UNCHANGED <<healthStats, progressStore, job, batch, hist>>
    /\ UNCHANGED <<categorizationCache, cacheOthers, windowElapsed, workingModel, modelDiscoveryAttempts,
                   envVars, discoveryStale, dbVars, httpStatus, disc>>

\* The outer catch of categorizeTask for an error that is not a rate limit:
\* the failure is counted; at FailureStreakLimit the model is dropped and a
\* forced discovery runs before the default is returned.
ItemFailure ==
    LET streak == healthStats.consecutiveFailures + 1
    IN  IF streak >= FailureStreakLimit
        THEN /\ healthStats' = [consecutiveFailures |-> streak, isHealthy |-> FALSE]
             /\ workingModel' = None
             /\ disc' = [NoDisc EXCEPT !.ret = "itemFailed", !.forceRefresh = TRUE]
             /\ pc' = "discover"
             /\ UNCHANGED <<progressStore, job, batch, indiv>>
        ELSE /\ healthStats' = [healthStats EXCEPT !.consecutiveFailures = streak]
             /\ ItemFinished(DefaultResult, TRUE)
             /\ UNCHANGED <<workingModel, disc>>

\* An attempt of the single-item request settles.
ItemAnswered ==
    /\ pc = "itemCall"
    /\ \E outcome \in ItemOutcomes(indiv.modelName \in liveModels) :
         /\ Faulty(indiv.modelName \in liveModels, outcome) => hist.faults < MaxFaults
         /\ hist' = Sent(IF outcome = "rateLimit"
                         THEN StreakNoted([hist EXCEPT !.faults = hist.faults + 1],
                                          healthStats.consecutiveFailures + 1)
                         ELSE IF Faulty(indiv.modelName \in liveModels, outcome)
                         THEN [hist EXCEPT !.faults = hist.faults + 1] ELSE hist)
         /\ \/ /\ outcome = "ok"
               /\ LET inserted == [categorizationCache EXCEPT
                          ![generateCacheKey(Trim(CurrentItem.task.notes))] =
                              UpstreamLabel(CurrentItem.task.notes)]
                  IN  /\ categorizationCache' = inserted
                      /\ cacheOthers' = cleanOldEntries(inserted, cacheOthers)
               /\ healthStats' = [consecutiveFailures |-> 0, isHealthy |-> TRUE]
               /\ ItemFinished(AiResult(UpstreamLabel(CurrentItem.task.notes)), TRUE)
               /\ UNCHANGED <<workingModel, disc>>
            \/ /\ outcome = "rateLimit"
               /\ healthStats' = [healthStats EXCEPT
                      !.consecutiveFailures = healthStats.consecutiveFailures + 1]
               /\ ItemFinished(DefaultResult, FALSE)
               /\ UNCHANGED <<categorizationCache, cacheOthers, workingModel, disc>>
            \/ /\ outcome = "notFound"
               /\ workingModel' = None
               /\ disc' = [NoDisc EXCEPT !.ret = "itemRediscovered", !.forceRefresh = TRUE]
               /\ pc' = "discover"
               /\ UNCHANGED <<categorizationCache, cacheOthers, healthStats, progressStore, job, batch,
                              indiv>>
            \/ /\ outcome = "error"
               /\ indiv.attempt < maxRetries
               /\ indiv' = [indiv EXCEPT !.attempt = indiv.attempt + 1,
                                         !.afterNotFound = FALSE, !.backoff = TRUE]
               /\ pc' = "itemCall"
               /\ UNCHANGED <<categorizationCache, cacheOthers, healthStats, workingModel, progressStore,
                              job, batch, disc>>
            \/ /\ outcome = "error"
               /\ indiv.attempt >= maxRetries
               /\ ItemFailure
               /\ UNCHANGED <<categorizationCache, cacheOthers>>
    /\ UNCHANGED <<requestCount, windowElapsed, modelDiscoveryAttempts, envVars, discoveryStale, dbVars,
                   httpStatus>>

\* Lines 462-477 after the forced discovery: with a new model and a retry left
\* the loop continues at once; with a retry left it continues after the
\* backoff; with none the error is thrown.  The retry uses the modelName the
\* call started with.
ItemRediscovered ==
    /\ pc = "itemRediscovered"
    /\ \/ /\ indiv.attempt < maxRetries
          /\ indiv' = [indiv EXCEPT !.attempt = indiv.attempt + 1,
                                    !.afterNotFound = TRUE,
                                    !.backoff = (disc.result = None)]
          /\ pc' = "itemCall"
          /\ UNCHANGED <<healthStats, workingModel, progressStore, job, batch, disc>>
       \/ /\ indiv.attempt >= maxRetries
          /\ ItemFailure
    /\ UNCHANGED <<categorizationCache, cacheOthers, requestCount, windowElapsed,
                   modelDiscoveryAttempts, envVars, discoveryStale, dbVars, httpStatus, hist>>

\* Lines 520-527 after the forced discovery of the failure streak.
ItemFailedReturn ==
    /\ pc = "itemFailed"
    /\ ItemFinished(DefaultResult, TRUE)
    /\ UNCHANGED <<svcVars, envVars, discoveryStale, dbVars, httpStatus, disc, hist>>

(***************************************************************************)
(* discoverWorkingModel                                                    *)
(***************************************************************************)
Return(value) ==
    /\ disc' = [disc EXCEPT !.result = value]
    /\ pc' = disc.ret

\* Lines 167-189: the early returns, else the pass starts.
DiscoverBegin ==
    /\ pc = "discover"
    /\ LET force == disc.forceRefresh
           cachedFresh == ~force /\ workingModel # None /\ ~discoveryStale
           budgetSpent == modelDiscoveryAttempts >= MAX_MODEL_DISCOVERY_ATTEMPTS /\ ~force
           checked == ~cachedFresh /\ ~budgetSpent /\ ~force
           rl == checkRateLimit(requestCount, windowElapsed)
       IN  /\ requestCount' = IF checked THEN rl.requestCount ELSE requestCount
           /\ windowElapsed' = IF checked THEN FALSE ELSE windowElapsed
           /\ hist' = IF checked THEN Observe(hist, rl.allowed, batch, indiv)
                      ELSE IF force THEN [hist EXCEPT !.rediscoveryOwed = FALSE]
                      ELSE hist
           /\ \/ /\ cachedFresh \/ budgetSpent \/ (checked /\ ~rl.allowed)
                 /\ Return(workingModel)
                 /\ UNCHANGED <<modelDiscoveryAttempts, discoveryStale>>
              \/ /\ ~(cachedFresh \/ budgetSpent \/ (checked /\ ~rl.allowed))
                 /\ modelDiscoveryAttempts' = modelDiscoveryAttempts + 1
                 /\ discoveryStale' = FALSE
                 /\ disc' = [disc EXCEPT !.i = 1]
                 /\ pc' = "probeGate"
    /\ UNCHANGED <<categorizationCache, cacheOthers, workingModel, healthStats, envVars, dbVars,
                   httpStatus, progressStore, job, batch, indiv>>

\* Lines 195-203: the check before each probe.
ProbeGate ==
    /\ pc = "probeGate"
    /\ LET rl == checkRateLimit(requestCount, windowElapsed)
       IN  /\ requestCount' = rl.requestCount
           /\ windowElapsed' = FALSE
           /\ hist' = Observe(hist, rl.allowed, batch, indiv)
           /\ \/ /\ ~rl.allowed
                 /\ Return(workingModel)
              \/ /\ rl.allowed
                 /\ pc' = "probeCall"
                 /\ UNCHANGED disc
    /\ UNCHANGED <<categorizationCache, cacheOthers, workingModel, modelDiscoveryAttempts, healthStats,
                   envVars, discoveryStale, dbVars, httpStatus, progressStore, job, batch, indiv>>

\* testModel settles: the model works, does not, or the probe met a 429.
ProbeAnswered ==
    /\ pc = "probeCall"
    /\ \E outcome \in ProbeOutcomes(MODEL_NAMES[disc.i] \in liveModels) :
       /\ Faulty(MODEL_NAMES[disc.i] \in liveModels, outcome) => hist.faults < MaxFaults
       /\ hist' = Sent(IF Faulty(MODEL_NAMES[disc.i] \in liveModels, outcome)
                       THEN [hist EXCEPT !.faults = hist.faults + 1] ELSE hist)
       /\
         \/ /\ outcome = "working"
            /\ requestCount' = requestCount + 1
            /\ workingModel' = MODEL_NAMES[disc.i]
            /\ modelDiscoveryAttempts' = 0
            /\ healthStats' = [consecutiveFailures |-> 0, isHealthy |-> TRUE]
            /\ Return(MODEL_NAMES[disc.i])
            /\ UNCHANGED windowElapsed
         \/ /\ outcome = "broken"
            /\ disc.i < Len(MODEL_NAMES)
            /\ requestCount' = requestCount + 1
            /\ disc' = [disc EXCEPT !.i = disc.i + 1]
            /\ pc' = "probeGate"
            /\ UNCHANGED <<windowElapsed, workingModel, modelDiscoveryAttempts, healthStats>>
         \/ /\ outcome = "broken"
            /\ disc.i >= Len(MODEL_NAMES)
            /\ requestCount' = requestCount + 1
            /\ workingModel' = None
            /\ healthStats' = [consecutiveFailures |-> healthStats.consecutiveFailures + 1,
                               isHealthy |-> FALSE]
            /\ Return(None)
            /\ UNCHANGED <<windowElapsed, modelDiscoveryAttempts>>
         \/ /\ outcome = "rateLimit"
            /\ requestCount' = MAX_REQUESTS_PER_MINUTE
            /\ windowElapsed' = FALSE
            /\ Return(workingModel)
            /\ UNCHANGED <<workingModel, modelDiscoveryAttempts, healthStats>>
    /\ UNCHANGED <<categorizationCache, cacheOthers, envVars, discoveryStale, dbVars, httpStatus, progressStore, job,
                   batch, indiv>>

(***************************************************************************)
(* Time: the rate window elapses while the job waits for a request, a      *)
(* delay or a backoff.                                                     *)
(***************************************************************************)
WaitingPcs == {"chunkCheck", "chunkCall", "itemStart", "itemCall", "probeGate", "probeCall"}

WindowElapses ==
    /\ pc \in WaitingPcs
    /\ ~windowElapsed
    /\ hist.ticks < MaxTicks
    /\ windowElapsed' = TRUE
    /\ hist' = [hist EXCEPT !.ticks = hist.ticks + 1]
    /\ UNCHANGED <<pc, categorizationCache, cacheOthers, requestCount, workingModel,
                   modelDiscoveryAttempts, healthStats, envVars, discoveryStale, dbVars,
                   httpStatus, progressStore, job, batch, indiv, disc>>

\* MODEL_DISCOVERY_INTERVAL has passed since the last discovery pass started.
IntervalElapses ==
    /\ pc \in WaitingPcs \cup {"idle"}
    /\ ~discoveryStale
    /\ hist.ticks < MaxTicks
    /\ discoveryStale' = TRUE
    /\ hist' = [hist EXCEPT !.ticks = hist.ticks + 1]
    /\ UNCHANGED <<pc, svcVars, envVars, dbVars, httpStatus, progressStore, job, batch,
                   indiv, disc>>

(***************************************************************************)
(* deleteAgent (agentController.js): another request of the same server.   *)
(* The agent fetched last by Agent.find() is deleted: its tasks go with    *)
(* Task.deleteMany, then the agent itself.  The request is followed while  *)
(* a job that has read the roster waits for Task.insertMany, and after a   *)
(* job's record has been removed.                                          *)
(***************************************************************************)
TasksOf(store, id) == SelectSeq(store, LAMBDA t : t.agent = id)
deleteMany(store, id) == SelectSeq(store, LAMBDA t : t.agent # id)

DeleteAgent ==
    /\ pc \in {"insert", "removed"}
    /\ hist.deleted = 0
    /\ agentsDb >= 1
    /\ taskStore' = deleteMany(taskStore, agentsDb)
    /\ agentsDb' = agentsDb - 1
    /\ hist' = [hist EXCEPT !.deleted = agentsDb]
    /\ UNCHANGED <<pc, svcVars, aiEnabled, liveModels, discoveryStale, fileExists, uploadDb,
                   httpStatus, progressStore, job, batch, indiv, disc>>


Next ==
    \/ StoreUpload
    \/ UploadCSV
    \/ ProcessUploadBegin
    \/ StreamHeadersRejected
    \/ StreamEnd
    \/ StreamError
    \/ SaveFailedRecord
    \/ SaveProcessingRecord
    \/ CategorizeTasksBatchBegin
    \/ ChunkCheck
    \/ ChunkGate
    \/ ChunkAnswered
    \/ ItemBegin
    \/ ItemGate
    \/ ItemAnswered
    \/ ItemRediscovered
    \/ ItemFailedReturn
    \/ DiscoverBegin
    \/ ProbeGate
    \/ ProbeAnswered
    \/ Combine
    \/ MergeAndDistribute
    \/ InsertTasks
    \/ FinishUpload
    \/ RemoveAfterGrace
    \/ CleanupOldProgress
    \/ WindowElapses
    \/ IntervalElapses
    \/ Poll
    \/ DeleteAgent

Spec == Init /\ [][Next]_vars

(***************************************************************************)
(* The classification service under concurrent requests.  Every request    *)
(* in flight is a call of categorizeTask; the requests share the module    *)
(* state (rate limiter, workingModel, modelDiscoveryAttempts, healthStats) *)
(* and interleave at their awaits.  pc and disc hold one entry for each    *)
(* request in flight; the variables of the ingestion job stay untouched.   *)
(***************************************************************************)
Procs == 1..MaxProcs

InPass(p) == pc[p] \in {"probeGate", "probeCall"}
PassesInProgress == {p \in Procs : InPass(p)}

svcJobVars == <<categorizationCache, cacheOthers, envVars, discoveryStale, dbVars, httpStatus,
                progressStore, job, batch, indiv>>

SvcInit ==
    /\ pc = [p \in Procs |-> "idle"]
    /\ disc = [p \in Procs |-> NoDisc]
    /\ categorizationCache = EmptyCache
    /\ cacheOthers = 0
    /\ requestCount = 0
    /\ windowElapsed = FALSE
    /\ workingModel = None
    /\ modelDiscoveryAttempts = 0
    /\ discoveryStale = TRUE
    /\ healthStats = [consecutiveFailures |-> 0, isHealthy |-> TRUE]
    /\ aiEnabled = TRUE
    /\ liveModels \in {{}, {MODEL_NAMES[1]}, {MODEL_NAMES[Len(MODEL_NAMES)]}}
    /\ agentsDb = 1
    /\ fileExists = FALSE
    /\ httpStatus = 0
    /\ progressStore = <<>>
    /\ uploadDb = None
    /\ taskStore = <<>>
    /\ job = NoJob
    /\ batch = NoBatch
    /\ indiv = NoIndiv
    /\ hist = NoHist

SvcReturn(p, value) ==
    /\ disc' = [disc EXCEPT ![p].result = value]
    /\ pc' = [pc EXCEPT ![p] = "gate"]

\* categorizeTask, lines 311-325: the rate check, then getWorkingModel,
\* which answers from the cached name or starts discoverWorkingModel(false).
SvcRequest(p) ==
    /\ pc[p] = "idle"
    /\ LET rl == checkRateLimit(requestCount, windowElapsed)
       IN  /\ requestCount' = rl.requestCount
           /\ windowElapsed' = FALSE
           /\ \/ /\ ~rl.allowed
                 /\ UNCHANGED <<pc, disc>>
              \/ /\ rl.allowed
                 /\ workingModel # None
                 /\ disc' = [disc EXCEPT ![p] = [NoDisc EXCEPT !.result = workingModel]]
                 /\ pc' = [pc EXCEPT ![p] = "gate"]
              \/ /\ rl.allowed
                 /\ workingModel = None
                 /\ disc' = [disc EXCEPT ![p] = NoDisc]
                 /\ pc' = [pc EXCEPT ![p] = "discover"]
    /\ UNCHANGED <<workingModel, modelDiscoveryAttempts, healthStats, hist, svcJobVars>>

\* discoverWorkingModel(false), lines 167-189, run by request p.
SvcDiscoverBegin(p) ==
    /\ pc[p] = "discover"
    /\ LET cachedFresh == workingModel # None /\ ~discoveryStale
           budgetSpent == modelDiscoveryAttempts >= MAX_MODEL_DISCOVERY_ATTEMPTS
           checked == ~cachedFresh /\ ~budgetSpent
           rl == checkRateLimit(requestCount, windowElapsed)
       IN  /\ requestCount' = IF checked THEN rl.requestCount ELSE requestCount
           /\ windowElapsed' = IF checked THEN FALSE ELSE windowElapsed
           /\ \/ /\ cachedFresh \/ budgetSpent \/ (checked /\ ~rl.allowed)
                 /\ SvcReturn(p, workingModel)
                 /\ UNCHANGED <<modelDiscoveryAttempts, discoveryStale, hist>>
              \/ /\ ~(cachedFresh \/ budgetSpent \/ (checked /\ ~rl.allowed))
                 /\ modelDiscoveryAttempts' = modelDiscoveryAttempts + 1
                 /\ discoveryStale' = FALSE
                 /\ disc' = [disc EXCEPT ![p].i = 1]
                 /\ pc' = [pc EXCEPT ![p] = "probeGate"]
                 /\ UNCHANGED hist
    /\ UNCHANGED <<categorizationCache, cacheOthers, workingModel, healthStats, envVars, dbVars,
                   httpStatus, progressStore, job, batch, indiv>>

\* Lines 195-203: the check before each probe of request p's pass.
SvcProbeGate(p) ==
    /\ pc[p] = "probeGate"
    /\ LET rl == checkRateLimit(requestCount, windowElapsed)
       IN  /\ requestCount' = rl.requestCount
           /\ windowElapsed' = FALSE
           /\ \/ /\ ~rl.allowed
                 /\ SvcReturn(p, workingModel)
                 /\ hist' = [hist EXCEPT !.passEnded = TRUE]
              \/ /\ rl.allowed
                 /\ pc' = [pc EXCEPT ![p] = "probeCall"]
                 /\ UNCHANGED <<disc, hist>>
    /\ UNCHANGED <<workingModel, modelDiscoveryAttempts, healthStats, svcJobVars>>

\* Lines 205-243: testModel settles for request p's pass.
SvcProbeAnswered(p) ==
    /\ pc[p] = "probeCall"
    /\ \E outcome \in ProbeOutcomes(MODEL_NAMES[disc[p].i] \in liveModels) :
       LET faulty == Faulty(MODEL_NAMES[disc[p].i] \in liveModels, outcome)
           h == IF faulty THEN [hist EXCEPT !.faults = hist.faults + 1] ELSE hist
       IN
       /\ faulty => hist.faults < MaxFaults
       /\
         \/ /\ outcome = "working"
            /\ requestCount' = requestCount + 1
            /\ workingModel' = MODEL_NAMES[disc[p].i]
            /\ modelDiscoveryAttempts' = 0
            /\ healthStats' = [consecutiveFailures |-> 0, isHealthy |-> TRUE]
            /\ SvcReturn(p, MODEL_NAMES[disc[p].i])
            /\ hist' = [h EXCEPT !.passEnded = TRUE]
            /\ UNCHANGED windowElapsed
         \/ /\ outcome = "broken"
            /\ disc[p].i < Len(MODEL_NAMES)
            /\ requestCount' = requestCount + 1
            /\ disc' = [disc EXCEPT ![p].i = disc[p].i + 1]
            /\ pc' = [pc EXCEPT ![p] = "probeGate"]
            /\ hist' = h
            /\ UNCHANGED <<windowElapsed, workingModel, modelDiscoveryAttempts, healthStats>>
         \/ /\ outcome = "broken"
            /\ disc[p].i >= Len(MODEL_NAMES)
            /\ requestCount' = requestCount + 1
            /\ workingModel' = None
            /\ healthStats' = [consecutiveFailures |->
                                   IF healthStats.consecutiveFailures < MaxStreak
                                   THEN healthStats.consecutiveFailures + 1 ELSE MaxStreak,
                               isHealthy |-> FALSE]
            /\ SvcReturn(p, None)
            /\ hist' = [h EXCEPT !.passEnded = TRUE,
                                 !.clobbered = h.clobbered \/ workingModel # None]
            /\ UNCHANGED <<windowElapsed, modelDiscoveryAttempts>>
         \/ /\ outcome = "rateLimit"
            /\ requestCount' = MAX_REQUESTS_PER_MINUTE
            /\ windowElapsed' = FALSE
            /\ SvcReturn(p, workingModel)
            /\ hist' = [h EXCEPT !.passEnded = TRUE]
            /\ UNCHANGED <<workingModel, modelDiscoveryAttempts, healthStats>>
    /\ UNCHANGED svcJobVars

\* categorizeTask, lines 327-338 and 358-422: without a model the request
\* is answered with the default; with one the upstream call is counted,
\* sent, and answered with a label.
SvcGate(p) ==
    /\ pc[p] = "gate"
    /\ \/ /\ disc[p].result = None
          /\ healthStats' = [healthStats EXCEPT !.consecutiveFailures =
                                IF @ < MaxStreak THEN @ + 1 ELSE MaxStreak]
          /\ UNCHANGED <<requestCount, hist>>
       \/ /\ disc[p].result # None
          /\ requestCount' = requestCount + 1
          /\ healthStats' = [consecutiveFailures |-> 0, isHealthy |-> TRUE]
          /\ hist' = [hist EXCEPT !.served = TRUE]
    /\ pc' = [pc EXCEPT ![p] = "idle"]
    /\ disc' = [disc EXCEPT ![p] = NoDisc]
    /\ UNCHANGED <<windowElapsed, workingModel, modelDiscoveryAttempts, svcJobVars>>

\* The rate window (60 s) runs out.
SvcWindowElapses ==
    /\ ~windowElapsed
    /\ windowElapsed' = TRUE
    /\ UNCHANGED <<pc, categorizationCache, cacheOthers, requestCount, workingModel,
                   modelDiscoveryAttempts, healthStats, discoveryStale, envVars, dbVars,
                   httpStatus, progressStore, job, batch, indiv, disc, hist>>

SvcNext ==
    \/ \E p \in Procs : SvcRequest(p)
    \/ \E p \in Procs : SvcDiscoverBegin(p)
    \/ \E p \in Procs : SvcProbeGate(p)
    \/ \E p \in Procs : SvcProbeAnswered(p)
    \/ \E p \in Procs : SvcGate(p)
    \/ SvcWindowElapses

SvcSpec == SvcInit /\ [][SvcNext]_vars

\* Requests keep arriving, every pending continuation is eventually run
\* by the event loop, and the clock keeps advancing.
FairSvcSpec ==
    /\ SvcSpec
    /\ \A p \in Procs : WF_vars(SvcRequest(p))
    /\ \A p \in Procs : WF_vars(SvcDiscoverBegin(p))
    /\ \A p \in Procs : WF_vars(SvcProbeGate(p))
    /\ \A p \in Procs : WF_vars(SvcProbeAnswered(p))
    /\ \A p \in Procs : WF_vars(SvcGate(p))
    /\ WF_vars(SvcWindowElapses)

(***************************************************************************)
(* Properties of the ingestion job and of the batch classifier.            *)
(***************************************************************************)
HasRecord == JobId \in DOMAIN progressStore
Status == IF HasRecord THEN progressStore[JobId].status ELSE None
CategorySet == {CATEGORIES[i] : i \in 1..Len(CATEGORIES)}

\* The steps of processUpload and of the classifier it awaits: everything
\* but the request handler, the timers and the passing of time.
JobStep ==
    \/ ProcessUploadBegin \/ StreamHeadersRejected \/ StreamEnd \/ StreamError
    \/ SaveFailedRecord \/ SaveProcessingRecord \/ CategorizeTasksBatchBegin
    \/ ChunkCheck \/ ChunkGate \/ ChunkAnswered \/ ItemBegin \/ ItemGate
    \/ ItemAnswered \/ ItemRediscovered \/ ItemFailedReturn \/ DiscoverBegin
    \/ ProbeGate \/ ProbeAnswered \/ Combine \/ MergeAndDistribute \/ InsertTasks
    \/ FinishUpload

\* The catch block ran for a failed save, insert or unlink.
PersistenceFault ==
    HasRecord /\ progressStore[JobId].error \in {"save failed", "insert failed",
                                                 "unlink failed"}

\* The labels the classifier can give a note: what upstream answers for any
\* note with the same cache key, or General for an item its answer omits.
LabelsFor(notes) ==
    {"General"} \cup
        {UpstreamLabel(n) : n \in {m \in Notes : generateCacheKey(m) = generateCacheKey(notes)}}

IsClassificationOf(r, task) ==
    \/ r = DefaultResult
    \/ r.source = "ai" /\ r.confidence = None /\ r.category \in LabelsFor(task.notes)

\* C1: when categorizeTasksBatch has returned for a non-empty list, the
\* results list is as long as the input and results[i] is the classification
\* of tasks[i] (the label of that very note, or the default), whatever the
\* split between cached items and chunks.
C1_ResultsMatchInput ==
    (pc = "merge" /\ Len(job.tasks) > 0) =>
        /\ Len(job.response.results) = Len(job.tasks)
        /\ \A i \in 1..Len(job.tasks) :
              IsClassificationOf(job.response.results[i], job.tasks[i])

\* A run that returned with a cached item behind an uncached one and a chunk
\* the classifier labelled.
C1_Witness ==
    /\ pc = "merge"
    /\ Len(batch.cachedResults) >= 1
    /\ batch.cachedResults[1].index > 0
    /\ AiCount(batch.batchResults) >= 1
    /\ \E i \in 1..Len(job.tasks) : job.response.results[i].category = "Billing"

ClassifierPcs ==
    {"batch", "chunkCheck", "chunkGate", "chunkCall", "itemStart", "itemGate", "itemCall",
     "itemRediscovered", "itemFailed", "discover", "probeGate", "probeCall", "combine"}

\* C2: no upstream outcome fails the job.  While the classifier runs the job
\* stays categorizing, and a job with valid headers that met no persistence
\* fault ends completed with every parsed row persisted in order, each with a
\* category of the list, General when its source is default.
C2_ClassifierNeverFailsJob ==
    /\ (pc \in ClassifierPcs /\ ~hist.cleaned) => Status = "categorizing"
    /\ (pc = "done" /\ job.headersValid /\ job.validationError = None /\ ~PersistenceFault
          /\ ~hist.cleaned) =>
          /\ Status = "completed"
          /\ Len(taskStore) = Len(job.tasks)
          /\ \A i \in 1..Len(taskStore) :
                /\ taskStore[i].notes = job.tasks[i].notes
                /\ taskStore[i].category \in CategorySet
                /\ taskStore[i].categorySource = "default" =>
                       taskStore[i].category = "General"

\* A completed job whose every row was defaulted after upstream faults.
C2_Witness ==
    /\ pc = "done"
    /\ Status = "completed"
    /\ aiEnabled
    /\ hist.faults >= 1
    /\ Len(taskStore) >= 2
    /\ \A i \in 1..Len(taskStore) : taskStore[i].categorySource = "default"

\* C3 as stated: if checkRateLimit() answered false during the run, the
\* returned flag is true and every task unclassified at that moment has the
\* default result.
C3_RateLimitDefaultsRest ==
    (pc = "merge" /\ hist.limiterExhausted) =>
        /\ job.response.rateLimitHit
        /\ \A i \in hist.unclassifiedAtStop : job.response.results[i + 1] = DefaultResult

Decreases(p, q) == p # NaN /\ q # NaN /\ q < p

\* C4 as stated: from one update to the next, while the status is not
\* terminal, the stored progress does not decrease.
C4_ProgressNeverDecreases ==
    [][(HasRecord /\ JobId \in DOMAIN progressStore'
          /\ ~Terminal(progressStore[JobId].status)
          /\ ~Terminal(progressStore'[JobId].status))
        => ~Decreases(progressStore[JobId].progress, progressStore'[JobId].progress)]_vars

\* C5 as stated: a record shows progress 100 only with status completed.
C5_HundredOnlyWhenCompleted ==
    (HasRecord /\ progressStore[JobId].progress = 100) => Status = "completed"

\* C6 as stated, in its finite form: a job whose record is not terminal is
\* never left without a step to take, so that it cannot wait forever.
C6_JobNeverStuck ==
    (HasRecord /\ ~Terminal(Status)) => ENABLED JobStep

HeaderErrors ==
    {"Invalid CSV format. Required headers: FirstName, Phone, Notes", "Invalid CSV format"}

\* C7 as stated: once a job whose file lacks a required header has come to
\* rest (persistence working), no task is persisted, its status is failed
\* with the header error, and the file is gone.
C7_MissingHeadersFailJob ==
    (/\ job.kind = "ok"
     /\ pc \notin {"idle", "received", "responded", "launched", "parsing"}
     /\ ~job.headersValid
     /\ ~ENABLED JobStep
     /\ ~PersistenceFault) =>
        /\ taskStore = <<>>
        /\ Status = "failed"
        /\ progressStore[JobId].error \in HeaderErrors
        /\ ~fileExists

StatusRank(s) ==
    CASE s = "initializing" -> 0
      [] s = "parsing" -> 1
      [] s = "categorizing" -> 2
      [] s = "saving" -> 3
      [] s = "completed" -> 4
      [] OTHER -> 5

\* C8: while the record exists its status never moves backwards along
\* initializing, parsing, categorizing, saving, completed (failed being
\* reachable from any of the first four), and a completed or failed record
\* is left as it is until it is removed.
C8_StatusForwardOnly ==
    [][(HasRecord /\ JobId \in DOMAIN progressStore') =>
          /\ StatusRank(progressStore'[JobId].status) >= StatusRank(progressStore[JobId].status)
          /\ Terminal(progressStore[JobId].status) =>
                 progressStore'[JobId] = progressStore[JobId]]_vars

\* A job that failed from saving, after its tasks were inserted.
C8_Witness ==
    /\ pc = "done"
    /\ Status = "failed"
    /\ taskStore # <<>>
    /\ progressStore[JobId].processedTasks = Len(job.tasks)

CountFor(a) == Cardinality({i \in 1..Len(taskStore) : taskStore[i].agent = a})

\* C9: the i-th persisted task (0-based, in row order) belongs to
\* roster[i mod n], and no two agents' task counts differ by more than one.
C9_RoundRobin ==
    (taskStore # <<>> /\ hist.deleted = 0) =>
        LET n == Len(job.agents)
        IN  /\ n >= 1
            /\ \A i \in 1..Len(taskStore) :
                  /\ taskStore[i].notes = job.tasks[i].notes
                  /\ taskStore[i].agent = job.agents[((i - 1) % n) + 1]
            /\ \A a, b \in 1..n : CountFor(job.agents[a]) - CountFor(job.agents[b]) <= 1

\* Tasks persisted for a roster of several agents that does not divide them.
C9_Witness ==
    /\ Len(job.agents) >= 2
    /\ Len(taskStore) >= 3
    /\ Len(taskStore) % Len(job.agents) # 0

\* C10: with an empty roster no job is created: there is never a progress
\* record nor a persisted task, the request handler is the only code that
\* runs, and once it has answered (with an error) the uploaded file is gone.
C10_EmptyRosterRejected ==
    (agentsDb = 0 /\ hist.deleted = 0) =>
        /\ taskStore = <<>>
        /\ ~HasRecord
        /\ pc \in {"idle", "received", "responded"}
        /\ pc = "responded" => (~fileExists /\ httpStatus >= 400)

\* An otherwise valid upload answered 400 for want of agents, its file removed.
C10_Witness ==
    /\ pc = "responded"
    /\ agentsDb = 0
    /\ job.kind = "ok"
    /\ Len(job.csv.rows) >= 1
    /\ httpStatus = 400
    /\ ~fileExists

UpstreamCallPcs == {"chunkCall", "itemCall", "probeCall"}

\* C11: with the feature disabled no upstream call is in flight, the rate
\* counter and the cache stay as they were, and a job of n valid rows that
\* met no persistence fault ends completed with n tasks persisted, each
\* General / default with no categorized timestamp, defaultTasks = n and
\* categorizedTasks = 0.
C11_DisabledAllDefault ==
    /\ ~aiEnabled => pc \notin UpstreamCallPcs
    /\ ~aiEnabled =>
          /\ requestCount = DisabledService.count
          /\ categorizationCache = DisabledService.cache
          /\ workingModel = DisabledService.model
    /\ (~aiEnabled /\ pc = "done" /\ job.headersValid /\ job.validationError = None
          /\ ~PersistenceFault /\ ~hist.cleaned) =>
          /\ Status = "completed"
          /\ Len(taskStore) = Len(job.tasks)
          /\ \A i \in 1..Len(taskStore) :
                /\ taskStore[i].notes = job.tasks[i].notes
                /\ taskStore[i].category = "General"
                /\ taskStore[i].categorySource = "default"
                /\ ~taskStore[i].categorizedAt
                /\ taskStore[i].agent = job.agents[((i - 1) % Len(job.agents)) + 1]
          /\ progressStore[JobId].defaultTasks = Len(job.tasks)
          /\ progressStore[JobId].categorizedTasks = 0
          /\ progressStore[JobId].processedTasks = Len(job.tasks)

\* A disabled-feature job completed with several rows over several agents.
C11_Witness ==
    /\ ~aiEnabled
    /\ pc = "done"
    /\ Status = "completed"
    /\ Len(taskStore) >= 3
    /\ Len(job.agents) >= 2
    /\ requestCount > 0
    /\ \E i \in 1..Len(taskStore) : job.tasks[i].notes = NoteBillLoud

Cached(notes) ==
    generateCacheKey(notes) # None /\ categorizationCache[generateCacheKey(notes)] # None

\* C12 as stated: once a text's label is in the cache (entries of the model
\* are within the TTL), no upstream classification request carries a text
\* with the same cache key, and every result the batch returns for such a
\* text is that label with source ai.
C12_CachedTextNotResent ==
    /\ pc = "chunkCall" => \A j \in 1..Len(CurrentChunk) : ~Cached(CurrentChunk[j].task.notes)
    /\ pc = "itemCall" => ~Cached(CurrentItem.task.notes)

\* C13 as stated: the shared counter never exceeds the per-window budget.
C13_CounterWithinBudget == requestCount <= MAX_REQUESTS_PER_MINUTE

ItemPcs == {"itemStart", "itemGate", "itemCall", "itemRediscovered", "itemFailed"}
IndexSeq(items) == [j \in 1..Len(items) |-> items[j].index]
InFallback == pc \in ItemPcs \/ (pc \in {"discover", "probeGate", "probeCall"} /\ indiv.i > 0)

\* C14: while a chunk is classified item by item, the items before the
\* current one each have exactly one result, in chunk order; and the results
\* the chunks contribute to the merge are one per uncached item, in order,
\* none lost and none twice.
C14_FallbackOnePerItem ==
    /\ InFallback =>
          /\ Len(indiv.results) = indiv.i - 1
          /\ IndexSeq(indiv.results) = SubSeq(IndexSeq(CurrentChunk), 1, indiv.i - 1)
          /\ IndexSeq(batch.batchResults) \o IndexSeq(indiv.results) =
                SubSeq(IndexSeq(Flatten(batch.chunks, 1)), 1,
                       Len(batch.batchResults) + Len(indiv.results))
    /\ pc = "combine" =>
          IndexSeq(batch.batchResults) = IndexSeq(Flatten(batch.chunks, 1))

\* A run about to merge in which a chunk fell back to item-by-item
\* classification (no rate-limit stop) with a labelled and a defaulted item.
C14_Witness ==
    /\ pc = "combine"
    /\ ~batch.rateLimitHit
    /\ Len(batch.batchResults) >= 2
    /\ \E j \in 1..Len(batch.batchResults) : batch.batchResults[j].result = DefaultResult
    /\ AiCount(batch.batchResults) >= 1

\* C15: within one batch the chunk requests are issued one at a time in
\* chunk order: a request for chunk i is in flight only when every earlier
\* chunk's items already have their results and i - 1 delays of 13 s were
\* taken; no delay follows the last chunk; and when all k chunks are
\* answered, exactly k requests were made with k - 1 delays between them.
\* Twenty short uncached notes make chunks of 15 and 5, one delay and 20
\* merged results.
ChunkSizes(chunkSeq) == [c \in 1..Len(chunkSeq) |-> Len(chunkSeq[c])]
ServingPcs == {"chunkGate", "chunkCall", "itemGate", "itemCall"}
C16_StreakForcesRediscovery == hist.rediscoveryOwed => pc \notin ServingPcs

\* C17 as stated: a retry of a single-item call that follows a "not found"
\* answer starts after the forced discovery has completed and is not
\* preceded by the backoff delay.
C17_NotFoundRetryWithoutBackoff ==
    (pc = "itemCall" /\ indiv.afterNotFound) => ~indiv.backoff

\* C18 as stated: once MODEL_DISCOVERY_INTERVAL has passed since the last
\* discovery, no classification request (chunk or single item) reaches its
\* request with a cached model name that no discovery pass re-validated.
C18_StaleModelRevalidated ==
    (pc \in {"chunkGate", "itemGate"} /\ disc.result # None /\ discoveryStale) =>
        disc.i >= 1

\* C19 as stated: the cache never holds more than CacheCap entries plus the
\* one insertion that triggers the eviction, whichever path inserted last.
C19_CacheBounded == CacheSize(categorizationCache, cacheOthers) <= CacheCap + 1

\* C20 as stated: every cache entry holds a label the upstream classifier
\* returned for a text of that key; a General put in for an ordinal missing
\* from a chunk response, or a default, is never in the cache.
ReturnedLabels(k) ==
    LET texts == {n \in Notes : generateCacheKey(n) = k}
    IN  {UpstreamLabel(n) : n \in texts}
           \cup {validateCategory(UpstreamAnswer(Trim(n))) : n \in texts}
C20_CacheHoldsUpstreamLabels ==
    \A k \in CacheKeys :
        categorizationCache[k] # None => categorizationCache[k] \in ReturnedLabels(k)

\* C21: after completeProgress or failProgress the record stays readable with
\* its terminal status until the grace timer (60 s after completion, 5 min
\* after failure) deletes it; a poll for a deleted or unknown job id is
\* answered 404 / not_found; and an update for a deleted record does not
\* create it again.
C21_GraceThenNotFound ==
    /\ (pc = "done" /\ ~hist.cleaned) =>
          /\ getUploadProgress(progressStore, JobId).code = 200
          /\ Terminal(getUploadProgress(progressStore, JobId).status)
    /\ pc = "removed" =>
          /\ progressStore = <<>>
          /\ Terminal(hist.removed.status)
          /\ hist.removed.status = "completed" => hist.removed.after = 60000
          /\ hist.removed.status = "failed" => hist.removed.after = 300000
    /\ hist.poll # NoPoll =>
          /\ hist.poll.code = 404
          /\ hist.poll.status = "not_found"
    /\ hist.cleaned => progressStore = <<>>

C21_Witness ==
    /\ pc = "removed"
    /\ hist.removed.status = "completed"
    /\ hist.poll.id = JobId
    /\ hist.poll.code = 404

\* C22: with the default limits createOptimalChunks returns non-empty chunks
\* whose concatenation is the uncached input in its order; no chunk has more
\* than maxChunkSize items, every chunk but the last has at least
\* minChunkSize, and a chunk whose estimated cost (its items and the base
\* prompt) is above maxTokens has at most minChunkSize items.
RECURSIVE ChunkCost(_, _)
ChunkCost(chunk, j) ==
    IF j > Len(chunk) THEN basePromptTokens
    ELSE estimateTokens(chunk[j].task.notes) + taskNumberTokens + ChunkCost(chunk, j + 1)
C22_ChunksWellFormed ==
    /\ \A c \in 1..Len(batch.chunks) :
          /\ Len(batch.chunks[c]) >= 1
          /\ Len(batch.chunks[c]) <= maxChunkSize
          /\ c < Len(batch.chunks) => Len(batch.chunks[c]) >= minChunkSize
          /\ ChunkCost(batch.chunks[c], 1) > maxTokens =>
                Len(batch.chunks[c]) <= minChunkSize
    /\ (pc = "chunkCheck" /\ batch.i = 1) =>
          Flatten(batch.chunks, 1) =
              separateCachedTasks(job.tasks, categorizationCache).uncachedTasks

C22_Witness ==
    /\ pc = "chunkCheck" /\ batch.i = 1
    /\ Len(batch.chunks) = 2
    /\ Len(batch.chunks[1]) = minChunkSize
    /\ ChunkCost(batch.chunks[1], 1) > maxTokens
    /\ Len(batch.cachedResults) = 0

\* C23 as stated: in every state of the job's progress record,
\* categorizedTasks + defaultTasks <= processedTasks <= totalTasks.
C23_CountsConsistent ==
    HasRecord =>
        /\ progressStore[JobId].categorizedTasks + progressStore[JobId].defaultTasks
              <= progressStore[JobId].processedTasks
        /\ progressStore[JobId].processedTasks <= progressStore[JobId].totalTasks

\* C24 as stated: the progress field of the job's record is an integer
\* between 0 and 100 in every state.
C24_ProgressInRange == HasRecord => progressStore[JobId].progress \in 0..100

\* C25 as stated: the upstream requests sent since the last reset of the rate
\* window (probes, chunk requests, every attempt of a single-item request),
\* the one in flight included, are at most MAX_REQUESTS_PER_MINUTE.
RequestsThisWindow == hist.issued + (IF pc \in UpstreamCallPcs THEN 1 ELSE 0)
C25_RequestsWithinBudget == RequestsThisWindow <= MAX_REQUESTS_PER_MINUTE

\* C26 as stated: the retry that follows a "not found" answer and a forced
\* discovery that returned a model is sent to that model, never to the
\* model that was just reported as not found.
C26_RetryUsesNewModel ==
    (pc = "itemCall" /\ indiv.afterNotFound /\ disc.result # None) =>
        indiv.modelName = disc.result

\* C27 as stated: when the job has ended, its tasks are in the task store
\* only if the job ended completed and the Upload record says success.
JobOutcome == IF HasRecord THEN Status ELSE hist.removed.status
C27_TasksOnlyOnSuccess ==
    (pc \in {"done", "removed"} /\ ~hist.cleaned /\ Len(taskStore) > 0) =>
        /\ JobOutcome = "completed"
        /\ uploadDb = "success"

\* C28: with several requests in flight and the working model unknown, at
\* most one discovery pass is in progress at a time, a pass that ends
\* without finding a model never clears a name another pass cached after
\* the first began, and overlapping passes count as one discovery: the
\* attempt counter moves by one until a pass has ended.
C28_SingleDiscoveryPass ==
    /\ Cardinality(PassesInProgress) <= 1
    /\ ~hist.clobbered
    /\ ~hist.passEnded => modelDiscoveryAttempts <= 1

\* C30: once the unforced discovery budget is spent with no cached model,
\* and a candidate model is callable while requests keep arriving and the
\* rate window keeps renewing, the service eventually discovers a model
\* again by itself and answers a request with an upstream label.
BudgetSpent ==
    /\ workingModel = None
    /\ modelDiscoveryAttempts >= MAX_MODEL_DISCOVERY_ATTEMPTS
    /\ liveModels # {}

C30_DiscoveryResumes == BudgetSpent ~> (workingModel # None /\ hist.served)

\* C29: once deleteAgent(id) has completed, no persisted task references
\* agent id, whatever an ingestion job that read the roster before the
\* deletion does afterwards.
C29_NoTaskOfDeletedAgent ==
    hist.deleted # 0 => TasksOf(taskStore, hist.deleted) = <<>>
====
